---- MODULE Spec2Model ----
(***************************************************************************)
(* Combat core of the Hogwarts RPG: the spell catalog (spell.py), the      *)
(* Character / NPC classes (npcs.py), the Player class (player.py), the    *)
(* session operations of HogwartsRPG (main.py) and the input entry of the  *)
(* HogwartsUI window (ui.py).                                              *)
(*                                                                         *)
(* A Python object reference is modelled by a name: a character by its     *)
(* key in chars, a catalog spell by the identifier of its module-level     *)
(* constant ("LUMOS", ...).  Python's None is the string "None".           *)
(***************************************************************************)
EXTENDS Integers, Sequences, FiniteSets, TLC

VARIABLES
    chars,      \* the Character objects alive, by reference; "player" is in
                \* the domain exactly when HogwartsRPG.player is not None
    pc,         \* where the session is: "menu", "player_turn", "npc_turn",
                \* "post_duel", or "crashed" after an uncaught exception
    opponent,   \* the NPC of the running duel, or None
    last,       \* the last call made: operation, arguments, return value
    ops,        \* number of explore / attend class / cast spell operations so far
    turns,      \* number of duel rounds started so far
    calls,      \* number of direct API calls made so far
    ui          \* the HogwartsUI object: input entry, callbacks, and the
                \* calls the callbacks have received

vars == <<chars, pc, opponent, last, ops, turns, calls, ui>>

None == "None"

-----------------------------------------------------------------------------
(* Bounds of the model *)

\* explore, attend class and cast spell operations per session
MaxOps == 1
\* duel rounds per session
MaxTurns == 5
\* direct calls of the Character / Spell API per run
MaxCalls == 3
\* direct calls made between the operations of one session
MaxMixedCalls == 1
\* random.sample outcomes considered for each NPC's known spells
MaxSampleStart == 1
\* words in the input entry of the window
MaxEntry == 2

\* amounts passed to take_damage, heal and restore_mana by direct calls
Amounts == {0, 15, 1000}

-----------------------------------------------------------------------------
(* spell.py *)

SpellDef ==
    [ LUMOS        |-> [name |-> "Lumos",        mana_cost |-> 5,  damage |-> 0,  effect |-> "illumination"],
      EXPELLIARMUS |-> [name |-> "Expelliarmus", mana_cost |-> 20, damage |-> 15, effect |-> "disarm"],
      STUPEFY      |-> [name |-> "Stupefy",      mana_cost |-> 25, damage |-> 20, effect |-> "stun"],
      PROTEGO      |-> [name |-> "Protego",      mana_cost |-> 15, damage |-> 0,  effect |-> "shield"],
      FLIPENDO     |-> [name |-> "Flipendo",     mana_cost |-> 18, damage |-> 12, effect |-> "knockback"],
      EPISKEY      |-> [name |-> "Episkey",      mana_cost |-> 30, damage |-> 0,  effect |-> "heal"] ]

\* the list the ALL_SPELLS comprehension iterates over, in its order
SpellList == <<"LUMOS", "EXPELLIARMUS", "STUPEFY", "PROTEGO", "FLIPENDO", "EPISKEY">>

Spells == DOMAIN SpellDef

\* str.lower on the strings the program lowers
Lower(s) ==
    CASE s = "Lumos"        -> "lumos"
      [] s = "Expelliarmus" -> "expelliarmus"
      [] s = "Stupefy"      -> "stupefy"
      [] s = "Protego"      -> "protego"
      [] s = "Flipendo"     -> "flipendo"
      [] s = "Episkey"      -> "episkey"
      [] s = "Gryffindor"   -> "gryffindor"
      [] s = "Slytherin"    -> "slytherin"
      [] s = "Hufflepuff"   -> "hufflepuff"
      [] s = "Ravenclaw"    -> "ravenclaw"
      [] OTHER              -> s

\* ALL_SPELLS: lowercase spell name -> spell
ALL_SPELLS ==
    [ k \in {Lower(SpellDef[s].name) : s \in Spells} |->
        CHOOSE s \in Spells : Lower(SpellDef[s].name) = k ]

\* ALL_SPELLS.values(), in insertion order
ALL_SPELLS_values == SpellList

Max(a, b) == IF a >= b THEN a ELSE b
Min(a, b) == IF a <= b THEN a ELSE b

\* Spell.cast with the cost deducted before the mana check
cast_deducts_on_failure(spell, cs, caster, target) ==
    IF cs[caster].mana < SpellDef[spell].mana_cost
    THEN [chars  |-> [cs EXCEPT ![caster].mana = @ - SpellDef[spell].mana_cost],
          damage |-> 0, effect |-> "Not enough mana!"]
    ELSE [chars  |-> [cs EXCEPT ![caster].mana = @ - SpellDef[spell].mana_cost],
          damage |-> SpellDef[spell].damage,
          effect |-> SpellDef[spell].effect]

\* Spell.cast that also subtracts the damage from the target's health
cast_applies_damage(spell, cs, caster, target) ==
    IF cs[caster].mana < SpellDef[spell].mana_cost
    THEN [chars |-> cs, damage |-> 0, effect |-> "Not enough mana!"]
    ELSE [chars  |-> IF target = None
                     THEN [cs EXCEPT ![caster].mana = @ - SpellDef[spell].mana_cost]
                     ELSE [[cs EXCEPT ![caster].mana = @ - SpellDef[spell].mana_cost]
                              EXCEPT ![target].health =
                                  IF @ >= SpellDef[spell].damage
                                  THEN @ - SpellDef[spell].damage ELSE 0],
          damage |-> SpellDef[spell].damage,
          effect |-> SpellDef[spell].effect]

\* Spell.cast that heals the caster by 30 when the effect is heal
cast_heals(spell, cs, caster, target) ==
    IF cs[caster].mana < SpellDef[spell].mana_cost
    THEN [chars |-> cs, damage |-> 0, effect |-> "Not enough mana!"]
    ELSE [chars  |-> [cs EXCEPT ![caster].mana = @ - SpellDef[spell].mana_cost,
                                ![caster].health =
                                    IF SpellDef[spell].effect = "heal"
                                    THEN Min(cs[caster].max_health, @ + 30) ELSE @],
          damage |-> SpellDef[spell].damage,
          effect |-> SpellDef[spell].effect]

\* Spell.cast that adds the cost to the caster's mana
cast_gains(spell, cs, caster, target) ==
    IF cs[caster].mana < SpellDef[spell].mana_cost
    THEN [chars |-> cs, damage |-> 0, effect |-> "Not enough mana!"]
    ELSE [chars  |-> [cs EXCEPT ![caster].mana = @ + SpellDef[spell].mana_cost],
          damage |-> SpellDef[spell].damage,
          effect |-> SpellDef[spell].effect]

\* Spell.cast: the characters after the call and the returned pair
cast(spell, cs, caster, target) ==
    IF cs[caster].mana < SpellDef[spell].mana_cost
    THEN [chars |-> cs, damage |-> 0, effect |-> "Not enough mana!"]
    ELSE [chars  |-> [cs EXCEPT ![caster].mana = @ - SpellDef[spell].mana_cost],
          damage |-> SpellDef[spell].damage,
          effect |-> SpellDef[spell].effect]

-----------------------------------------------------------------------------
(* npcs.py: Character *)

Character(name, max_health, max_mana) ==
    [ name           |-> name,
      max_health     |-> max_health,
      max_mana       |-> max_mana,
      health         |-> max_health,
      mana           |-> max_mana,
      known_spells   |-> << >>,
      shield_active  |-> FALSE,
      is_stunned     |-> FALSE,
      is_disarmed    |-> FALSE,
      is_knocked_back |-> FALSE,
      status_effects |-> << >> ]

\* is_alive that counts a character with no health left as alive
is_alive_at_zero(c) == c.health >= 0

is_alive(c) == c.health > 0

Contains(seq, x) == \E i \in 1..Len(seq) : seq[i] = x

\* list.remove(x): drops the first occurrence of x (x is in seq)
Remove(seq, x) ==
    LET i == CHOOSE j \in 1..Len(seq) :
                 seq[j] = x /\ \A k \in 1..(j - 1) : seq[k] # x
    IN  SubSeq(seq, 1, i - 1) \o SubSeq(seq, i + 1, Len(seq))

\* Character.take_damage as its first definition has it: no shield
take_damage_unshielded(c, amount) ==
    [self   |-> [c EXCEPT !.health = Max(0, @ - amount)],
     ret    |-> amount,
     raised |-> None]

\* Character.take_damage (the second definition, which replaces the first):
\* the character after the call, the value returned, the exception raised
take_damage(c, amount) ==
    IF c.shield_active
    THEN IF Contains(c.status_effects, "Shield")
         THEN [self   |-> [c EXCEPT !.shield_active = FALSE,
                                    !.status_effects = Remove(@, "Shield"),
                                    !.health = Max(0, @ - (amount \div 2))],
               ret    |-> amount \div 2,
               raised |-> None]
         ELSE [self   |-> [c EXCEPT !.shield_active = FALSE],
               ret    |-> 0,
               raised |-> "ValueError"]
    ELSE [self   |-> [c EXCEPT !.health = Max(0, @ - amount)],
          ret    |-> amount,
          raised |-> None]

\* heal without the cap at max_health
heal_uncapped(c, amount) == [c EXCEPT !.health = @ + amount]

\* heal that adds the amount twice
heal_twice(c, amount) == [c EXCEPT !.health = Min(c.max_health, @ + amount + amount)]

\* heal that does nothing
heal_nothing(c, amount) == c

heal(c, amount) == [c EXCEPT !.health = Min(c.max_health, @ + amount)]

\* restore_mana without the cap at max_mana
restore_mana_uncapped(c, amount) == [c EXCEPT !.mana = @ + amount]

restore_mana(c, amount) == [c EXCEPT !.mana = Min(c.max_mana, @ + amount)]

\* apply_effect that sets the flag and does not list the display name
apply_effect_flag_only(c, effect) ==
    CASE effect = "shield"    -> [c EXCEPT !.shield_active = TRUE]
      [] effect = "stun"      -> [c EXCEPT !.is_stunned = TRUE]
      [] effect = "disarm"    -> [c EXCEPT !.is_disarmed = TRUE]
      [] effect = "knockback" -> [c EXCEPT !.is_knocked_back = TRUE]
      [] OTHER -> c

apply_effect(c, effect) ==
    CASE effect = "shield" ->
           [c EXCEPT !.shield_active = TRUE,
                     !.status_effects = Append(@, "Shield")]
      [] effect = "stun" ->
           [c EXCEPT !.is_stunned = TRUE,
                     !.status_effects = Append(@, "Stunned")]
      [] effect = "disarm" ->
           [c EXCEPT !.is_disarmed = TRUE,
                     !.status_effects = Append(@, "Disarmed")]
      [] effect = "knockback" ->
           [c EXCEPT !.is_knocked_back = TRUE,
                     !.status_effects = Append(@, "Knocked Back")]
      [] OTHER -> c

\* clear_effects that resets the flags and keeps the list
clear_effects_keeps_list(c) ==
    [c EXCEPT !.shield_active = FALSE,
              !.is_stunned = FALSE,
              !.is_disarmed = FALSE,
              !.is_knocked_back = FALSE]

clear_effects(c) ==
    [c EXCEPT !.shield_active = FALSE,
              !.is_stunned = FALSE,
              !.is_disarmed = FALSE,
              !.is_knocked_back = FALSE,
              !.status_effects = << >>]

-----------------------------------------------------------------------------
(* npcs.py: NPC *)

Difficulty ==
    [ easy   |-> [health |-> 80,  mana |-> 80,  spell_count |-> 2],
      normal |-> [health |-> 100, mana |-> 100, spell_count |-> 3],
      hard   |-> [health |-> 120, mana |-> 120, spell_count |-> 4] ]

\* NPC.__init__, given the outcome of random.sample
NPC(name, difficulty, sample) ==
    [ Character(name, Difficulty[difficulty].health, Difficulty[difficulty].mana)
        EXCEPT !.known_spells = sample ]

\* the outcome of random.sample(list(ALL_SPELLS.values()), k) the model
\* takes for start position i: the k consecutive catalog spells from there
Sample(k, i) ==
    SubSeq(ALL_SPELLS_values, Min(i, Len(ALL_SPELLS_values) - k + 1),
           Min(i, Len(ALL_SPELLS_values) - k + 1) + k - 1)

castable_spells(c) ==
    SelectSeq(c.known_spells, LAMBDA s : SpellDef[s].mana_cost <= c.mana)

\* choose_spell without the mana filter
choose_spell_any(c) ==
    IF c.known_spells # << >>
    THEN { c.known_spells[i] : i \in 1..Len(c.known_spells) }
    ELSE { None }

\* NPC.choose_spell: the values random.choice can return, or None
choose_spell(c) ==
    IF castable_spells(c) # << >>
    THEN { castable_spells(c)[i] : i \in 1..Len(castable_spells(c)) }
    ELSE { None }

\* the module-level singletons
NPCDifficulty ==
    [ n \in {"Training Dummy", "Student Duelist", "Dark Wizard"} |->
        CASE n = "Training Dummy"  -> "easy"
          [] n = "Student Duelist" -> "normal"
          [] n = "Dark Wizard"     -> "hard" ]

NPCs == DOMAIN NPCDifficulty

-----------------------------------------------------------------------------
(* player.py *)

Houses == {"Gryffindor", "Slytherin", "Hufflepuff", "Ravenclaw"}

house_bonuses ==
    [ gryffindor |-> [health |-> 120, mana |-> 100],
      slytherin  |-> [health |-> 100, mana |-> 120],
      hufflepuff |-> [health |-> 110, mana |-> 110],
      ravenclaw  |-> [health |-> 90,  mana |-> 130] ]

\* Player.__init__
Player(name, house) ==
    LET stats == IF Lower(house) \in DOMAIN house_bonuses
                 THEN house_bonuses[Lower(house)]
                 ELSE [health |-> 100, mana |-> 100]
        base  == Character(name, stats.health, stats.mana)
    IN  [ f \in DOMAIN base \cup {"house", "knowledge", "house_points", "inventory"} |->
            CASE f = "house"        -> house
              [] f = "knowledge"    -> 0
              [] f = "house_points" -> 0
              [] f = "inventory"    -> <<"Wand", "Textbooks">>
              [] OTHER              -> base[f] ]

\* learn_spell that appends without looking at the known spells
learn_spell_again(p, spell) ==
    [self |-> [p EXCEPT !.known_spells = Append(@, spell)], ret |-> TRUE]

\* Player.learn_spell: the player after the call and the value returned
learn_spell(p, spell) ==
    IF ~Contains(p.known_spells, spell)
    THEN [self |-> [p EXCEPT !.known_spells = Append(@, spell)], ret |-> TRUE]
    ELSE [self |-> p, ret |-> FALSE]

\* Player.to_dict: the saved record; a known spell is saved as its name
to_dict(p) ==
    [ name         |-> p.name,
      house        |-> p.house,
      health       |-> p.health,
      max_health   |-> p.max_health,
      mana         |-> p.mana,
      max_mana     |-> p.max_mana,
      knowledge    |-> p.knowledge,
      house_points |-> p.house_points,
      inventory    |-> p.inventory,
      known_spells |-> [i \in 1..Len(p.known_spells) |-> SpellDef[p.known_spells[i]].name] ]

\* Player.from_dict: a new Player with the saved fields; a saved spell name is
\* looked up as it is among the keys of ALL_SPELLS and dropped if not there
from_dict(data) ==
    LET found == SelectSeq(data.known_spells, LAMBDA n : n \in DOMAIN ALL_SPELLS)
    IN  [ Player(data.name, data.house) EXCEPT
            !.health       = data.health,
            !.max_health   = data.max_health,
            !.mana         = data.mana,
            !.max_mana     = data.max_mana,
            !.knowledge    = data.knowledge,
            !.house_points = data.house_points,
            !.inventory    = data.inventory,
            !.known_spells = [i \in 1..Len(found) |-> ALL_SPELLS[found[i]]] ]

\* gain_knowledge that does nothing
gain_knowledge_none(p, amount) == p

gain_knowledge(p, amount) == [p EXCEPT !.knowledge = @ + amount]

award_house_points(p, points) == [p EXCEPT !.house_points = @ + points]

-----------------------------------------------------------------------------
(* utils.py *)

\* str.capitalize on the house keys
Capitalize(s) ==
    CASE s = "gryffindor" -> "Gryffindor"
      [] s = "slytherin"  -> "Slytherin"
      [] s = "hufflepuff" -> "Hufflepuff"
      [] s = "ravenclaw"  -> "Ravenclaw"
      [] OTHER            -> s

\* the house each option number stands for, the same in all three questions
QuizOption == <<"gryffindor", "slytherin", "hufflepuff", "ravenclaw">>

\* sorting_hat_quiz, given the three answers: the houses random.choice can
\* return among those with the most points
sorting_hat_quiz(answers) ==
    LET points(h) == Cardinality({q \in DOMAIN answers : QuizOption[answers[q]] = h})
        keys      == {QuizOption[i] : i \in DOMAIN QuizOption}
        max_points == CHOOSE m \in {points(h) : h \in keys} :
                          \A h \in keys : points(h) <= m
    IN  { Capitalize(h) : h \in {k \in keys : points(k) = max_points} }

\* generate_random_event: the house points of the eight events
RandomEvents == <<10, 5, 15, -10, 5, 10, -5, 15>>

-----------------------------------------------------------------------------
(* The record of the last call *)

Call(op, who) ==
    [ op |-> op, who |-> who, target |-> None, spell |-> None, effect |-> None,
      amount |-> 0, ret |-> 0, ret_effect |-> None, ret_spell |-> None,
      ret_bool |-> FALSE, raised |-> None, names |-> << >> ]

HasPlayer == "player" \in DOMAIN chars

-----------------------------------------------------------------------------
(* ui.py: HogwartsUI.  A text is the sequence of its words. *)

\* HogwartsUI.__init__: an empty entry and no callback; submitted lists the
\* calls the callbacks have received
HogwartsUI ==
    [ input_entry |-> << >>,
      callbacks   |-> [a \in {} |-> None],
      submitted   |-> << >> ]

\* the words typed into the entry
Words == {<<"Hello">>, <<"Hogwarts!">>}

\* the actions registered and the callbacks given by callers of register_callback
Actions == {"submit_text", "explore"}
Callbacks == {None, "test_callback", "other_callback"}

\* get_input_text that leaves the text in the entry
get_input_text_keeps(u) == [self |-> u, ret |-> u.input_entry]

\* get_input_text: the window after the call and the text returned
get_input_text(u) ==
    [self |-> [u EXCEPT !.input_entry = << >>], ret |-> u.input_entry]

\* register_callback
register_callback(u, action, callback) ==
    [u EXCEPT !.callbacks = (action :> callback) @@ @]

\* _handle_input_submit: the window after the <Return> binding has run
handle_input_submit(u) ==
    LET got == get_input_text(u)
    IN  IF "submit_text" \in DOMAIN got.self.callbacks
           /\ got.self.callbacks["submit_text"] # None
        THEN [got.self EXCEPT !.submitted =
                 Append(@, [callback |-> got.self.callbacks["submit_text"],
                            text     |-> got.ret])]
        ELSE got.self

-----------------------------------------------------------------------------
(* main.py: HogwartsRPG *)

\* start_new_game: an empty name returns at once
start_new_game ==
    /\ pc = "menu"
    /\ ~HasPlayer
    /\ \E name \in {"", "Harry"}, answers \in [1..3 -> 1..4] :
         \E house \in sorting_hat_quiz(answers) :
            /\ chars' = IF name = ""
                        THEN chars
                        ELSE ("player" :> learn_spell(Player(name, house), ALL_SPELLS["lumos"]).self)
                                 @@ chars
            /\ last' = [Call("start_new_game", "player") EXCEPT !.effect = name]
    /\ UNCHANGED <<ui, pc, opponent, ops, turns, calls>>

explore ==
    /\ pc = "menu"
    /\ HasPlayer
    /\ ops < MaxOps
    /\ \E e \in DOMAIN RandomEvents, mana_restored \in 5..15 :
         /\ chars' = [chars EXCEPT !["player"] =
                         restore_mana(award_house_points(@, RandomEvents[e]), mana_restored)]
         /\ last' = Call("explore", "player")
    /\ ops' = ops + 1
    /\ UNCHANGED <<ui, pc, opponent, turns, calls>>

available_spells(p) ==
    SelectSeq(ALL_SPELLS_values, LAMBDA s : ~Contains(p.known_spells, s))

attend_class ==
    /\ pc = "menu"
    /\ HasPlayer
    /\ ops < MaxOps
    /\ IF available_spells(chars["player"]) = << >>
       THEN /\ chars' = chars
            /\ last' = Call("attend_class", "player")
       ELSE \E i \in 1..Len(available_spells(chars["player"])) :
              LET spell   == available_spells(chars["player"])[i]
                  learned == learn_spell(chars["player"], spell)
              IN  /\ chars' = [chars EXCEPT !["player"] =
                                  IF learned.ret
                                  THEN award_house_points(gain_knowledge(learned.self, 10), 5)
                                  ELSE learned.self]
                  /\ last' = [Call("attend_class", "player") EXCEPT !.spell = spell,
                                                                    !.ret_bool = learned.ret]
    /\ ops' = ops + 1
    /\ UNCHANGED <<ui, pc, opponent, turns, calls>>

cast_spell ==
    /\ pc = "menu"
    /\ HasPlayer
    /\ ops < MaxOps
    /\ IF chars["player"].known_spells = << >>
       THEN /\ chars' = chars
            /\ last' = Call("cast_spell", "player")
       ELSE \E choice \in 1..Len(chars["player"].known_spells) :
              LET spell == chars["player"].known_spells[choice]
                  r     == cast(spell, chars, "player", None)
              IN  /\ chars' = r.chars
                  /\ last' = [Call("cast", "player") EXCEPT !.spell = spell,
                                                            !.ret = r.damage,
                                                            !.ret_effect = r.effect]
    /\ ops' = ops + 1
    /\ UNCHANGED <<ui, pc, opponent, turns, calls>>

\* the while condition without the opponent
BothAlive_player(cs, o) == is_alive(cs["player"])

\* the while condition of _run_duel
BothAlive(cs, o) == is_alive(cs["player"]) /\ is_alive(cs[o])

\* duel: the opponent is chosen and _run_duel entered
duel ==
    /\ pc = "menu"
    /\ HasPlayer
    /\ \E o \in NPCs :
         /\ opponent' = o
         /\ pc' = IF BothAlive(chars, o) THEN "player_turn" ELSE "post_duel"
         /\ last' = [Call("duel", "player") EXCEPT !.target = o]
    /\ UNCHANGED <<ui, chars, ops, turns, calls>>

\* one cast of a duel by `who` on `on`: the cast, then take_damage when the
\* returned damage is not 0
DuelCast(spell, cs, who, on) ==
    LET r == cast(spell, cs, who, on)
        d == take_damage(r.chars[on], r.damage)
    IN  IF r.damage # 0
        THEN [chars |-> [r.chars EXCEPT ![on] = d.self], damage |-> r.damage,
              effect |-> r.effect, taken |-> d.ret, raised |-> d.raised]
        ELSE [chars |-> r.chars, damage |-> r.damage,
              effect |-> r.effect, taken |-> 0, raised |-> None]

\* _run_duel, the player's half of a round: the chosen spell is cast, the
\* opponent takes the damage, and the loop is left if the opponent is dead
PlayerRound ==
    \E choice \in 1..Len(chars["player"].known_spells) :
       LET spell == chars["player"].known_spells[choice]
           r     == DuelCast(spell, chars, "player", opponent)
           won   == ~is_alive(r.chars[opponent])
       IN  /\ chars' = IF r.raised = None /\ won
                       THEN [r.chars EXCEPT !["player"] = award_house_points(@, 20)]
                       ELSE r.chars
           /\ pc' = IF r.raised # None THEN "crashed"
                    ELSE IF won THEN "post_duel" ELSE "npc_turn"
           /\ last' = [Call("player_turn", "player") EXCEPT
                          !.target = opponent, !.spell = spell, !.ret = r.damage,
                          !.ret_effect = r.effect, !.amount = r.taken,
                          !.raised = r.raised]

\* the player's half of one of the first MaxTurns rounds of the session
player_turn ==
    /\ pc = "player_turn"
    /\ turns < MaxTurns
    /\ PlayerRound
    /\ turns' = turns + 1
    /\ UNCHANGED <<ui, opponent, ops, calls>>

\* the player's half of a round after those, which are not counted
player_turn_uncounted ==
    /\ pc = "player_turn"
    /\ turns = MaxTurns
    /\ PlayerRound
    /\ UNCHANGED <<ui, opponent, ops, turns, calls>>

\* the opponent's half of a round in which an opponent that can cast nothing
\* forfeits the duel
npc_turn_forfeits ==
    /\ pc = "npc_turn"
    /\ \E spell \in choose_spell(chars[opponent]) :
         LET r    == IF spell # None
                     THEN DuelCast(spell, chars, opponent, "player")
                     ELSE [chars |-> chars, damage |-> 0, effect |-> None,
                           taken |-> 0, raised |-> None]
             lost == ~is_alive(r.chars["player"])
         IN  /\ chars' = IF r.raised = None /\ lost
                         THEN [r.chars EXCEPT !["player"] = award_house_points(@, -10)]
                         ELSE r.chars
             /\ pc' = IF r.raised # None THEN "crashed"
                      ELSE IF lost \/ spell = None THEN "post_duel"
                      ELSE "player_turn"
             /\ last' = [Call("npc_turn", opponent) EXCEPT
                            !.target = "player", !.spell = spell, !.ret = r.damage,
                            !.ret_effect = r.effect, !.amount = r.taken,
                            !.ret_spell = spell, !.raised = r.raised]
    /\ UNCHANGED <<ui, opponent, ops, turns, calls>>

\* _run_duel, the opponent's half of a round
npc_turn ==
    /\ pc = "npc_turn"
    /\ \E spell \in choose_spell(chars[opponent]) :
         LET r    == IF spell # None
                     THEN DuelCast(spell, chars, opponent, "player")
                     ELSE [chars |-> chars, damage |-> 0, effect |-> None,
                           taken |-> 0, raised |-> None]
             lost == ~is_alive(r.chars["player"])
         IN  /\ chars' = IF r.raised = None /\ lost
                         THEN [r.chars EXCEPT !["player"] = award_house_points(@, -10)]
                         ELSE r.chars
             /\ pc' = IF r.raised # None THEN "crashed"
                      ELSE IF lost THEN "post_duel"
                      ELSE IF BothAlive(r.chars, opponent) THEN "player_turn"
                      ELSE "post_duel"
             /\ last' = [Call("npc_turn", opponent) EXCEPT
                            !.target = "player", !.spell = spell, !.ret = r.damage,
                            !.ret_effect = r.effect, !.amount = r.taken,
                            !.ret_spell = spell, !.raised = r.raised]
    /\ UNCHANGED <<ui, opponent, ops, turns, calls>>

\* the recovery after the loop that also restores the opponent
recover_both(cs, o) ==
    [cs EXCEPT !["player"] = restore_mana(heal(@, 30), 30),
               ![o] = restore_mana(heal(clear_effects(@), @.max_health), @.max_mana)]

\* the recovery after the loop of _run_duel against opponent o
recover(cs, o) ==
    [cs EXCEPT !["player"] = restore_mana(heal(@, 30), 30)]

\* _run_duel, after the loop
post_duel ==
    /\ pc = "post_duel"
    /\ chars' = recover(chars, opponent)
    /\ pc' = "menu"
    /\ opponent' = None
    /\ last' = [Call("post_duel", "player") EXCEPT !.target = opponent]
    /\ UNCHANGED <<ui, ops, turns, calls>>

SessionOps ==
    \/ explore
    \/ attend_class
    \/ cast_spell
    \/ duel
    \/ player_turn
    \/ npc_turn
    \/ post_duel

\* the module-level singletons, as random.sample made them
Singletons ==
    { [n \in NPCs |-> NPC(n, NPCDifficulty[n],
                          Sample(Difficulty[NPCDifficulty[n]].spell_count, i))] :
        i \in 1..MaxSampleStart }

\* HogwartsRPG.__init__: no player yet
Init ==
    /\ chars \in Singletons
    /\ pc = "menu"
    /\ opponent = None
    /\ last = Call("init", None)
    /\ ops = 0
    /\ turns = 0
    /\ calls = 0
    /\ ui = HogwartsUI

Next == start_new_game \/ SessionOps

Spec == Init /\ [][Next]_vars

-----------------------------------------------------------------------------
(* Direct calls of the Character, NPC and Spell API, as the unit tests make  *)
(* them on a constructed Player and the TRAINING_DUMMY singleton             *)

Subjects == {"player", "Training Dummy"}

\* the effect strings passed to apply_effect
Effects == {"shield", "stun", "disarm", "knockback", "heal"}

call_cast ==
    /\ pc = "menu"
    /\ calls < MaxCalls
    /\ \E spell \in Spells, caster \in Subjects, target \in Subjects \cup {None} :
         LET r == cast(spell, chars, caster, target)
         IN  /\ chars' = r.chars
             /\ last' = [Call("cast", caster) EXCEPT !.target = target, !.spell = spell,
                                                     !.ret = r.damage,
                                                     !.ret_effect = r.effect]
    /\ calls' = calls + 1
    /\ UNCHANGED <<ui, pc, opponent, ops, turns>>

call_take_damage ==
    /\ pc = "menu"
    /\ calls < MaxCalls
    /\ \E c \in Subjects, amount \in Amounts :
         LET r == take_damage(chars[c], amount)
         IN  /\ chars' = [chars EXCEPT ![c] = r.self]
             /\ last' = [Call("take_damage", c) EXCEPT !.amount = amount, !.ret = r.ret,
                                                       !.raised = r.raised]
    /\ calls' = calls + 1
    /\ UNCHANGED <<ui, pc, opponent, ops, turns>>

call_heal ==
    /\ pc = "menu"
    /\ calls < MaxCalls
    /\ \E c \in Subjects, amount \in Amounts :
         /\ chars' = [chars EXCEPT ![c] = heal(@, amount)]
         /\ last' = [Call("heal", c) EXCEPT !.amount = amount]
    /\ calls' = calls + 1
    /\ UNCHANGED <<ui, pc, opponent, ops, turns>>

call_restore_mana ==
    /\ pc = "menu"
    /\ calls < MaxCalls
    /\ \E c \in Subjects, amount \in Amounts :
         /\ chars' = [chars EXCEPT ![c] = restore_mana(@, amount)]
         /\ last' = [Call("restore_mana", c) EXCEPT !.amount = amount]
    /\ calls' = calls + 1
    /\ UNCHANGED <<ui, pc, opponent, ops, turns>>

call_apply_effect ==
    /\ pc = "menu"
    /\ calls < MaxCalls
    /\ \E c \in Subjects, effect \in Effects :
         /\ chars' = [chars EXCEPT ![c] = apply_effect(@, effect)]
         /\ last' = [Call("apply_effect", c) EXCEPT !.effect = effect]
    /\ calls' = calls + 1
    /\ UNCHANGED <<ui, pc, opponent, ops, turns>>

call_clear_effects ==
    /\ pc = "menu"
    /\ calls < MaxCalls
    /\ \E c \in Subjects :
         /\ chars' = [chars EXCEPT ![c] = clear_effects(@)]
         /\ last' = Call("clear_effects", c)
    /\ calls' = calls + 1
    /\ UNCHANGED <<ui, pc, opponent, ops, turns>>

call_choose_spell ==
    /\ pc = "menu"
    /\ calls < MaxCalls
    /\ \E c \in Subjects \cap NPCs :
         \E spell \in choose_spell(chars[c]) :
            last' = [Call("choose_spell", c) EXCEPT !.ret_spell = spell]
    /\ calls' = calls + 1
    /\ UNCHANGED <<ui, chars, pc, opponent, ops, turns>>

APICalls ==
    \/ call_cast
    \/ call_take_damage
    \/ call_heal
    \/ call_restore_mana
    \/ call_apply_effect
    \/ call_clear_effects
    \/ call_choose_spell

\* the fixture of the unit tests: a newly constructed Player beside the
\* module-level NPC singletons
InitAPI ==
    /\ \E npcs \in Singletons :
         chars = ("player" :> Player("Test Wizard", "Gryffindor")) @@ npcs
    /\ pc = "menu"
    /\ opponent = None
    /\ last = Call("init", None)
    /\ ops = 0
    /\ turns = 0
    /\ calls = 0
    /\ ui = HogwartsUI

SpecAPI == InitAPI /\ [][APICalls]_vars

\* a newly constructed Player of any house beside the NPC singletons
InitAll ==
    /\ \E house \in Houses, npcs \in Singletons :
         chars = ("player" :> Player("Test Wizard", house)) @@ npcs
    /\ pc = "menu"
    /\ opponent = None
    /\ last = Call("init", None)
    /\ ops = 0
    /\ turns = 0
    /\ calls = 0
    /\ ui = HogwartsUI

\* session operations, with direct calls between them
NextAll == (calls < MaxMixedCalls /\ APICalls) \/ SessionOps

SpecAll == InitAll /\ [][NextAll]_vars

\* the spell names found in a save file: catalog names as to_dict writes
\* them, in lower case, and a name of no catalog spell
SavedNames == {"Lumos", "lumos", "Stupefy", "stupefy", "Alohomora"}

\* the lists of at most two saved names
SavedLists ==
    {<< >>} \cup {<<a>> : a \in SavedNames} \cup {<<a, b>> : a, b \in SavedNames}

call_learn_spell ==
    /\ pc = "menu"
    /\ calls < MaxCalls
    /\ \E spell \in Spells :
         LET r == learn_spell(chars["player"], spell)
         IN  /\ chars' = [chars EXCEPT !["player"] = r.self]
             /\ last' = [Call("learn_spell", "player") EXCEPT !.spell = spell,
                                                             !.ret_bool = r.ret]
    /\ calls' = calls + 1
    /\ UNCHANGED <<ui, pc, opponent, ops, turns>>

\* save_game, then load_game by a new HogwartsRPG: json.dump and json.load
\* keep the strings, integers and lists of the record as they are
save_load ==
    /\ pc = "menu"
    /\ calls < MaxCalls
    /\ chars' = [chars EXCEPT !["player"] = from_dict(to_dict(@))]
    /\ last' = [Call("save_load", "player") EXCEPT
                   !.names = to_dict(chars["player"]).known_spells]
    /\ calls' = calls + 1
    /\ UNCHANGED <<ui, pc, opponent, ops, turns>>

\* Player.from_dict on the player's record with the spell names of a save file
call_from_dict ==
    /\ pc = "menu"
    /\ calls < MaxCalls
    /\ \E names \in SavedLists :
         /\ chars' = [chars EXCEPT !["player"] =
                         from_dict([to_dict(@) EXCEPT !.known_spells = names])]
         /\ last' = [Call("from_dict", "player") EXCEPT !.names = names]
    /\ calls' = calls + 1
    /\ UNCHANGED <<ui, pc, opponent, ops, turns>>

\* the operations on the Player: classes, casts, damage, learning and the
\* save file
NextPlayer ==
    \/ attend_class
    \/ cast_spell
    \/ call_take_damage
    \/ call_learn_spell
    \/ save_load
    \/ call_from_dict

SpecPlayer == InitAll /\ [][NextPlayer]_vars

\* the operations that teach the Player a spell
NextLearn ==
    \/ attend_class
    \/ call_learn_spell

SpecLearn == InitAll /\ [][NextLearn]_vars

\* input_entry.insert(0, text): the words go before those in the entry
entry_insert ==
    /\ calls < MaxCalls
    /\ \E text \in Words :
         /\ Len(ui.input_entry) + Len(text) <= MaxEntry
         /\ ui' = [ui EXCEPT !.input_entry = text \o @]
    /\ last' = Call("insert", "ui")
    /\ calls' = calls + 1
    /\ UNCHANGED <<chars, pc, opponent, ops, turns>>

call_register_callback ==
    /\ calls < MaxCalls
    /\ \E action \in Actions, callback \in Callbacks :
         /\ ui' = register_callback(ui, action, callback)
         /\ last' = [Call("register_callback", "ui") EXCEPT !.effect = action,
                                                           !.ret_effect = callback]
    /\ calls' = calls + 1
    /\ UNCHANGED <<chars, pc, opponent, ops, turns>>

\* the <Return> key in the entry
input_submit ==
    /\ calls < MaxCalls
    /\ ui' = handle_input_submit(ui)
    /\ last' = Call("submit", "ui")
    /\ calls' = calls + 1
    /\ UNCHANGED <<chars, pc, opponent, ops, turns>>

NextUI ==
    \/ entry_insert
    \/ call_register_callback
    \/ input_submit

\* the window, beside a game that is not touched
SpecUI == Init /\ [][NextUI]_vars

\* a session in which the player only duels, with direct calls of
\* choose_spell between the duels
NextDuel ==
    \/ start_new_game
    \/ duel
    \/ player_turn
    \/ npc_turn
    \/ post_duel
    \/ call_choose_spell

SpecDuel == Init /\ [][NextDuel]_vars

\* the characters once the player of start_new_game has attended one class
AfterOneClass ==
    { ("player" :> award_house_points(gain_knowledge(
                       learn_spell(learn_spell(Player("Harry", house),
                                               ALL_SPELLS["lumos"]).self,
                                   spell).self, 10), 5)) @@ npcs :
        house \in Houses, npcs \in Singletons,
        spell \in Spells \ {ALL_SPELLS["lumos"]} }

\* a session in which the player of start_new_game has attended one class
InitBout ==
    /\ chars \in AfterOneClass
    /\ pc = "menu"
    /\ opponent = None
    /\ last = Call("attend_class", "player")
    /\ ops = 1
    /\ turns = 0
    /\ calls = 0
    /\ ui = HogwartsUI

\* the duels of that session
NextBout ==
    \/ duel
    \/ player_turn
    \/ npc_turn
    \/ post_duel

SpecBout == InitBout /\ [][NextBout]_vars

\* the player after start_new_game and k classes that taught the catalog
\* spells in their order
Scholar(house, k) ==
    [ learn_spell(Player("Harry", house), ALL_SPELLS["lumos"]).self EXCEPT
        !.known_spells = SubSeq(ALL_SPELLS_values, 1, k + 1),
        !.knowledge    = 10 * k,
        !.house_points = 5 * k ]

\* an NPC singleton after a duel in which it spent its mana and was defeated
Defeated(npc) == [npc EXCEPT !.health = 0, !.mana = 0]

\* a session in which the player has attended all the classes but one, or
\* all, and has defeated the three opponents
InitClass ==
    /\ \E house \in Houses, npcs \in Singletons :
         \E k \in {Len(ALL_SPELLS_values) - 2, Len(ALL_SPELLS_values) - 1} :
            chars = ("player" :> Scholar(house, k)) @@ [n \in NPCs |-> Defeated(npcs[n])]
    /\ pc = "menu"
    /\ opponent = None
    /\ last = Call("post_duel", "player")
    /\ ops = 0
    /\ turns = 0
    /\ calls = 0
    /\ ui = HogwartsUI

\* a session of one class that has used up its explore, class and cast
\* operations
InitSpent ==
    /\ chars \in AfterOneClass
    /\ pc = "menu"
    /\ opponent = None
    /\ last = Call("attend_class", "player")
    /\ ops = MaxOps
    /\ turns = 0
    /\ calls = 0
    /\ ui = HogwartsUI

\* the session operations from either
SpecClass == (InitClass \/ InitSpent) /\ [][SessionOps]_vars

\* a session of duels whose rounds go on past the counted ones
NextLive ==
    \/ start_new_game
    \/ duel
    \/ player_turn
    \/ player_turn_uncounted
    \/ npc_turn
    \/ post_duel

\* the player answers every prompt of _run_duel, and the steps in between
\* run without waiting
SpecLive ==
    /\ Init
    /\ [][NextLive]_vars
    /\ WF_vars(player_turn \/ player_turn_uncounted)
    /\ WF_vars(npc_turn)
    /\ WF_vars(post_duel)

-----------------------------------------------------------------------------
(* Properties of Spell.cast *)

\* the four flags and the display list of a character
Flags(c) ==
    <<c.shield_active, c.is_stunned, c.is_disarmed, c.is_knocked_back, c.status_effects>>

\* the step is a call of Spell.cast by caster last'.who
CastStep == last'.op = "cast"

Cost(spell) == SpellDef[spell].mana_cost

\* a cast that the caster can pay for and is not stunned during
Successful(spell, caster) ==
    /\ ~chars[caster].is_stunned
    /\ chars[caster].mana >= Cost(spell)

\* C1: a cast by a caster whose mana is below the spell's cost returns
\* (0, "Not enough mana!") and changes neither the caster's mana nor anybody's
\* health or status-effect flags.
C1_NotEnoughMana ==
    [][ (CastStep /\ chars[last'.who].mana < Cost(last'.spell)) =>
          /\ last'.ret = 0
          /\ last'.ret_effect = "Not enough mana!"
          /\ chars'[last'.who].mana = chars[last'.who].mana
          /\ \A c \in DOMAIN chars :
               /\ chars'[c].health = chars[c].health
               /\ Flags(chars'[c]) = Flags(chars[c]) ]_vars

C1_Witness ==
    /\ last.op = "cast"
    /\ last.ret_effect = "Not enough mana!"
    /\ chars[last.who].mana < Cost(last.spell)
    /\ chars[last.who].mana > 0

\* C2: a cast by a caster whose Stunned flag is set returns
\* (0, "Cannot cast while stunned!") whatever the mana, deducts no mana,
\* applies no effect to anyone and leaves the caster stunned.
C2_StunnedCannotCast ==
    [][ (CastStep /\ chars[last'.who].is_stunned) =>
          /\ last'.ret = 0
          /\ last'.ret_effect = "Cannot cast while stunned!"
          /\ chars'[last'.who].mana = chars[last'.who].mana
          /\ \A c \in DOMAIN chars : Flags(chars'[c]) = Flags(chars[c])
          /\ chars'[last'.who].is_stunned ]_vars

\* C3: a cast by a non-stunned caster with enough mana reduces the caster's
\* mana by exactly the spell's cost, returns (spell.damage, spell.effect) and
\* changes nobody's health.
C3_SuccessfulCast ==
    [][ (CastStep /\ Successful(last'.spell, last'.who)) =>
          /\ chars'[last'.who].mana = chars[last'.who].mana - Cost(last'.spell)
          /\ last'.ret = SpellDef[last'.spell].damage
          /\ last'.ret_effect = SpellDef[last'.spell].effect
          /\ \A c \in DOMAIN chars : chars'[c].health = chars[c].health ]_vars

C3_Witness ==
    /\ last.op = "cast"
    /\ last.target \notin {None, last.who}
    /\ ~chars[last.who].is_stunned
    /\ last.ret > 0
    /\ last.ret = SpellDef[last.spell].damage
    /\ chars[last.who].mana = chars[last.who].max_mana - Cost(last.spell)

\* C4: a successful cast of a spell whose effect is shield sets the Shield
\* flag on the caster and lists "Shield" in the caster's status effects,
\* whether the target is absent, the caster or another combatant, and changes
\* no flag of another target.
C4_ShieldOnCaster ==
    [][ (/\ CastStep
         /\ SpellDef[last'.spell].effect = "shield"
         /\ Successful(last'.spell, last'.who)) =>
          /\ chars'[last'.who].shield_active
          /\ Contains(chars'[last'.who].status_effects, "Shield")
          /\ last'.target \notin {None, last'.who} =>
               Flags(chars'[last'.target]) = Flags(chars[last'.target]) ]_vars

\* the flag a targeted effect stands for
EffectFlag(c, effect) ==
    CASE effect = "stun"      -> c.is_stunned /\ Contains(c.status_effects, "Stunned")
      [] effect = "disarm"    -> c.is_disarmed /\ Contains(c.status_effects, "Disarmed")
      [] effect = "knockback" -> c.is_knocked_back /\ Contains(c.status_effects, "Knocked Back")
      [] OTHER                -> TRUE

\* C5: a successful cast of a spell whose effect is stun, disarm or knockback
\* sets the corresponding flag on the given target and lists it in the
\* target's status effects; with no target no flag changes on anyone.
C5_EffectOnTarget ==
    [][ (/\ CastStep
         /\ SpellDef[last'.spell].effect \in {"stun", "disarm", "knockback"}
         /\ Successful(last'.spell, last'.who)) =>
          IF last'.target # None
          THEN EffectFlag(chars'[last'.target], SpellDef[last'.spell].effect)
          ELSE \A c \in DOMAIN chars : Flags(chars'[c]) = Flags(chars[c]) ]_vars

-----------------------------------------------------------------------------
(* Properties of Character.take_damage, heal and restore_mana *)

\* the step is a call of take_damage on last'.who with last'.amount
TakeDamageStep == last'.op = "take_damage"

\* C6: a shield mitigates exactly one damage event: a take_damage(d) on a
\* shielded combatant returns and subtracts floor(d/2) and clears the Shield
\* flag and its entry in the status-effect list, and a take_damage(d) on a
\* combatant without shield (as after that event) returns and subtracts d.
C6_ShieldOnce ==
    [][ TakeDamageStep =>
          LET c  == chars[last'.who]
              c2 == chars'[last'.who]
              d  == last'.amount
          IN  IF c.shield_active
              THEN /\ last'.ret = d \div 2
                   /\ c2.health = Max(0, c.health - (d \div 2))
                   /\ ~c2.shield_active
                   /\ ~Contains(c2.status_effects, "Shield")
              ELSE /\ last'.ret = d
                   /\ c2.health = Max(0, c.health - d) ]_vars

\* C7: take_damage(amount) sets health to max(0, health - mitigated) and
\* returns mitigated, which is floor(amount/2) under an active Shield and
\* amount otherwise; the health stays within 0 .. max_health.
C7_TakeDamage ==
    [][ TakeDamageStep =>
          LET c  == chars[last'.who]
              c2 == chars'[last'.who]
              mitigated == IF c.shield_active THEN last'.amount \div 2 ELSE last'.amount
          IN  /\ last'.raised = None
              /\ last'.ret = mitigated
              /\ c2.health = (IF c.health - mitigated > 0 THEN c.health - mitigated ELSE 0)
              /\ c2.health >= 0
              /\ c2.health <= c2.max_health ]_vars

C7_Witness ==
    /\ last.op = "take_damage"
    /\ last.amount = 15
    /\ last.ret = 7
    /\ chars[last.who].health = chars[last.who].max_health - 7

\* C8: from a newly constructed Player and the NPCs, after any sequence of
\* cast, take_damage, heal, restore_mana, explore, attend_class and duel
\* operations every combatant has 0 <= health <= max_health and
\* 0 <= mana <= max_mana.
C8_StatsInRange ==
    \A c \in DOMAIN chars :
        /\ 0 <= chars[c].health
        /\ chars[c].health <= chars[c].max_health
        /\ 0 <= chars[c].mana
        /\ chars[c].mana <= chars[c].max_mana

C8_Witness ==
    /\ last.op = "post_duel"
    /\ calls > 0
    /\ ops > 0
    /\ turns > 1
    /\ chars[last.target].health = 0
    /\ chars["player"].health = chars["player"].max_health
    /\ chars["player"].mana = chars["player"].max_mana

\* C9: heal(amount) sets health to min(max_health, health + amount) and
\* restore_mana(amount) sets mana to min(max_mana, mana + amount); nothing
\* else of the combatant (or of any other) changes.
C9_HealRestore ==
    [][ /\ last'.op = "heal" =>
            chars' = [chars EXCEPT ![last'.who].health =
                        IF chars[last'.who].health + last'.amount <= chars[last'.who].max_health
                        THEN chars[last'.who].health + last'.amount
                        ELSE chars[last'.who].max_health]
        /\ last'.op = "restore_mana" =>
            chars' = [chars EXCEPT ![last'.who].mana =
                        IF chars[last'.who].mana + last'.amount <= chars[last'.who].max_mana
                        THEN chars[last'.who].mana + last'.amount
                        ELSE chars[last'.who].max_mana] ]_vars

C9_Witness ==
    /\ last.op = "heal"
    /\ last.amount = 15
    /\ chars[last.who].health = 15

-----------------------------------------------------------------------------
(* Properties of NPC.choose_spell *)

\* what choose_spell may return for character c: r is None exactly when c can
\* afford none of its known spells, and otherwise a known spell c can afford
ChoiceOk(c, r) ==
    /\ r # None =>
         /\ \E i \in 1..Len(c.known_spells) : c.known_spells[i] = r
         /\ SpellDef[r].mana_cost <= c.mana
    /\ r = None <=>
         \A i \in 1..Len(c.known_spells) : SpellDef[c.known_spells[i]].mana_cost > c.mana

\* C10: choose_spell returns only a known spell whose cost is at most the
\* NPC's current mana, returns None exactly when no known spell is
\* affordable, and changes no state.
C10_ChooseSpell ==
    [][ /\ last'.op = "choose_spell" =>
            /\ ChoiceOk(chars[last'.who], last'.ret_spell)
            /\ chars' = chars
        /\ last'.op = "npc_turn" =>
            ChoiceOk(chars[last'.who], last'.ret_spell) ]_vars

C10_Witness ==
    /\ last.op = "npc_turn"
    /\ last.ret_spell = None
    /\ chars[last.who].known_spells # << >>
    /\ chars[last.who].mana < chars[last.who].max_mana

-----------------------------------------------------------------------------
(* Properties of HogwartsRPG._run_duel *)

HousePoints(cs) == cs["player"].house_points

\* the step leaves the loop of _run_duel, or never enters it
DuelEnds == pc # "post_duel" /\ pc' = "post_duel"

\* the outcome PLAYER_WON of the step: the opponent is dead and the player
\* has 20 house points more
PlayerWon ==
    /\ chars'[opponent'].health = 0
    /\ HousePoints(chars') = HousePoints(chars) + 20

\* the outcome PLAYER_LOST of the step: the player is dead and has 10 house
\* points less
PlayerLost ==
    /\ chars'["player"].health = 0
    /\ HousePoints(chars') = HousePoints(chars) - 10

\* C11: every duel ends with exactly one of two outcomes: the step that ends
\* it is PLAYER_WON with +20 house points or PLAYER_LOST with -10 house
\* points, and no other step of the duel (its start, a round that does not
\* end it, the recovery) changes the house points.
C11_ExactlyOneOutcome ==
    [][ /\ DuelEnds => (PlayerWon \/ PlayerLost)
        /\ (/\ last'.op \in {"duel", "player_turn", "npc_turn", "post_duel"}
            /\ ~DuelEnds) =>
               HousePoints(chars') = HousePoints(chars) ]_vars

\* the character knows a spell with positive damage that it can afford
CanHurt(c) ==
    \E i \in 1..Len(c.known_spells) :
        /\ SpellDef[c.known_spells[i]].damage > 0
        /\ SpellDef[c.known_spells[i]].mana_cost <= c.mana

\* _run_duel has just entered its loop, and a side can afford a damage spell
DuelStarts ==
    /\ last.op = "duel"
    /\ pc = "player_turn"
    /\ CanHurt(chars["player"]) \/ CanHurt(chars[opponent])

\* C12: a duel that starts with a side knowing a positive-damage spell it can
\* afford leaves its loop after finitely many turns, whatever the player and
\* the NPC choose.
C12_DuelTerminates == DuelStarts ~> (pc \notin {"player_turn", "npc_turn"})

\* C13: the loop of a duel starts with the player's turn, and a player's turn
\* that brings the opponent's health to 0 ends the duel in that step with +20
\* house points; the opponent spends no mana and deals no damage in it, takes
\* no turn while dead, and is left alone by the recovery.
C13_WinEndsDuel ==
    [][ /\ (last'.op = "duel" /\ pc' # "post_duel") => pc' = "player_turn"
        /\ (last'.op = "player_turn" /\ chars'[opponent].health = 0) =>
               /\ pc' = "post_duel"
               /\ HousePoints(chars') = HousePoints(chars) + 20
               /\ chars'[opponent].mana = chars[opponent].mana
               /\ chars'["player"].health = chars["player"].health
        /\ last'.op = "npc_turn" => chars[opponent].health > 0
        /\ last'.op = "post_duel" =>
               /\ chars'[opponent] = chars[opponent]
               /\ chars'["player"].health >= chars["player"].health ]_vars

C13_Witness ==
    /\ last.op = "player_turn"
    /\ pc = "post_duel"
    /\ chars[opponent].health = 0
    /\ chars["player"].health < chars["player"].max_health
    /\ chars["player"].house_points >= 20

\* C14: the step after the loop of a duel, won or lost, sets the player's
\* health to min(max_health, health + 30) and mana to min(max_mana, mana + 30)
\* and changes nothing else; it is the only way from a duel back to the menu,
\* and no turn of the duel raises the player's health or mana.
C14_PostDuelRecovery ==
    [][ /\ last'.op = "post_duel" =>
               /\ pc = "post_duel" /\ pc' = "menu"
               /\ chars' = [chars EXCEPT
                      !["player"].health =
                          IF @ + 30 <= chars["player"].max_health
                          THEN @ + 30 ELSE chars["player"].max_health,
                      !["player"].mana =
                          IF @ + 30 <= chars["player"].max_mana
                          THEN @ + 30 ELSE chars["player"].max_mana]
        /\ (pc # "menu" /\ pc' = "menu") => last'.op = "post_duel"
        /\ pc \in {"player_turn", "npc_turn"} =>
               /\ chars'["player"].health <= chars["player"].health
               /\ chars'["player"].mana <= chars["player"].mana ]_vars

C14_Witness ==
    /\ last.op = "post_duel"
    /\ chars[last.target].health > 0
    /\ chars["player"].house_points < 0
    /\ chars["player"].health = 30
    /\ chars["player"].mana = chars["player"].max_mana

\* C15: no step outside the turns of a duel (its end and recovery, the menu
\* operations, the start of the next duel) changes an NPC, so the opponent
\* starts its next duel with the health, mana and status effects it ended
\* the previous one with.
C15_OpponentUntouched ==
    [][ last'.op \notin {"player_turn", "npc_turn"} =>
            \A n \in NPCs : chars'[n] = chars[n] ]_vars

C15_Witness ==
    /\ last.op = "duel"
    /\ pc = "player_turn"
    /\ turns > 0
    /\ chars[opponent].health < chars[opponent].max_health
    /\ chars[opponent].mana < chars[opponent].max_mana

-----------------------------------------------------------------------------
(* Properties of Player.to_dict and Player.from_dict *)

\* the fields of the saved record other than the known spells
SavedFields ==
    {"name", "house", "health", "max_health", "mana", "max_mana",
     "knowledge", "house_points", "inventory"}

\* the set of the names of the spells a player knows
SpellNames(p) == { SpellDef[p.known_spells[i]].name : i \in 1..Len(p.known_spells) }

\* C16: saving and loading is a round trip: Player.from_dict(player.to_dict())
\* has the name, house, health, max_health, mana, max_mana, knowledge,
\* house_points and inventory of the player and the same set of known spell
\* names.
C16_SaveLoadRoundTrip ==
    [][ last'.op = "save_load" =>
            /\ \A f \in SavedFields : chars'["player"][f] = chars["player"][f]
            /\ SpellNames(chars'["player"]) = SpellNames(chars["player"]) ]_vars

\* C17: Player.from_dict restores every saved field and, in their order, the
\* catalog spells that the saved names match when letter case is ignored; a
\* name that matches no catalog spell is skipped.
C17_LoadResolvesNames ==
    [][ last'.op = "from_dict" =>
            LET found == SelectSeq(last'.names,
                                   LAMBDA n : Lower(n) \in DOMAIN ALL_SPELLS)
            IN  /\ \A f \in SavedFields : chars'["player"][f] = chars["player"][f]
                /\ chars'["player"].known_spells =
                       [i \in 1..Len(found) |-> ALL_SPELLS[Lower(found[i])]] ]_vars

-----------------------------------------------------------------------------
(* Properties of the status effects and of the known spells *)

\* C18: after any sequence of apply_effect, take_damage and clear_effects
\* calls, each display name (Shield, Stunned, Disarmed, Knocked Back) is in a
\* combatant's status_effects if and only if its flag is true.
C18_FlagsMatchList ==
    \A c \in DOMAIN chars :
        /\ Contains(chars[c].status_effects, "Shield") <=> chars[c].shield_active
        /\ Contains(chars[c].status_effects, "Stunned") <=> chars[c].is_stunned
        /\ Contains(chars[c].status_effects, "Disarmed") <=> chars[c].is_disarmed
        /\ Contains(chars[c].status_effects, "Knocked Back") <=> chars[c].is_knocked_back

NoDuplicates(seq) == \A i, j \in 1..Len(seq) : seq[i] = seq[j] => i = j

\* C19: after any sequence of apply_effect calls no display name is in a
\* combatant's status_effects twice.
C19_NoDuplicateEffects ==
    \A c \in DOMAIN chars : NoDuplicates(chars[c].status_effects)

\* C20: learn_spell appends the spell and returns True exactly when the
\* player does not know it yet, and otherwise returns False and changes
\* nothing; a learn_spell or attend_class call on known spells without
\* duplicates leaves them without duplicates.
C20_LearnSpell ==
    [][ /\ last'.op = "learn_spell" =>
               IF \A i \in 1..Len(chars["player"].known_spells) :
                      chars["player"].known_spells[i] # last'.spell
               THEN /\ last'.ret_bool
                    /\ chars' = [chars EXCEPT !["player"].known_spells =
                                                  Append(@, last'.spell)]
               ELSE /\ ~last'.ret_bool
                    /\ chars' = chars
        /\ (/\ last'.op \in {"learn_spell", "attend_class"}
            /\ NoDuplicates(chars["player"].known_spells)) =>
               NoDuplicates(chars'["player"].known_spells) ]_vars

C20_Witness ==
    /\ last.op = "learn_spell"
    /\ ~last.ret_bool
    /\ ops > 0
    /\ Len(chars["player"].known_spells) = 2
    /\ chars["player"].known_spells[2] = last.spell

-----------------------------------------------------------------------------
(* Properties of the turns of a duel and of the status effects in it *)

\* C21: the turn of an opponent whose Stunned flag is set is skipped: in it
\* the opponent spends no mana, and the player's health and status effects
\* do not change.
C21_StunnedNPCSkipped ==
    [][ (last'.op = "npc_turn" /\ chars[opponent].is_stunned) =>
            /\ chars'[opponent].mana = chars[opponent].mana
            /\ chars'["player"].health = chars["player"].health
            /\ Flags(chars'["player"]) = Flags(chars["player"]) ]_vars

\* C22: the end of a duel clears the player's status effects: after the step
\* that follows the loop the player has no flag set and an empty
\* status_effects list.
C22_EffectsClearedAfterDuel ==
    [][ last'.op = "post_duel" =>
            Flags(chars'["player"]) = <<FALSE, FALSE, FALSE, FALSE, << >> >> ]_vars

\* C23: clear_effects sets the four flags to false and empties
\* status_effects, and changes nothing else of the combatant (health, mana,
\* known spells) nor anything of another.
C23_ClearEffects ==
    [][ last'.op = "clear_effects" =>
            chars' = [chars EXCEPT ![last'.who].shield_active = FALSE,
                                   ![last'.who].is_stunned = FALSE,
                                   ![last'.who].is_disarmed = FALSE,
                                   ![last'.who].is_knocked_back = FALSE,
                                   ![last'.who].status_effects = << >>] ]_vars

C23_Witness ==
    /\ last.op = "clear_effects"
    /\ calls = 3
    /\ chars[last.who].health = chars[last.who].max_health - 15
    /\ chars[last.who].mana = chars[last.who].max_mana - 25
    /\ Flags(chars[last.who]) = <<FALSE, FALSE, FALSE, FALSE, << >> >>

\* C24: submitting the input entry empties the entry and, when a submit_text
\* callback is registered, calls it once with the text that was in the
\* entry; with no such callback nothing else happens.
C24_InputSubmit ==
    [][ last'.op = "submit" =>
            /\ ui'.input_entry = << >>
            /\ ui'.callbacks = ui.callbacks
            /\ ui'.submitted =
                   IF /\ "submit_text" \in DOMAIN ui.callbacks
                      /\ ui.callbacks["submit_text"] # None
                   THEN Append(ui.submitted,
                               [callback |-> ui.callbacks["submit_text"],
                                text     |-> ui.input_entry])
                   ELSE ui.submitted ]_vars

C24_Witness ==
    /\ last.op = "submit"
    /\ ui.input_entry = << >>
    /\ ui.submitted = << [callback |-> "test_callback", text |-> <<"Hello">>] >>

\* C25: a player's cast in a duel that fails, for lack of mana or because the
\* player is stunned, applies no damage to the opponent and hands the turn to
\* the opponent.
C25_FailedCastConsumesTurn ==
    [][ (/\ last'.op = "player_turn"
         /\ \/ chars["player"].mana < Cost(last'.spell)
            \/ chars["player"].is_stunned) =>
            /\ chars'[opponent].health = chars[opponent].health
            /\ pc' = "npc_turn" ]_vars

\* C26: the turn of an opponent that can afford none of its known spells
\* changes no combatant (the player's health, mana and flags, the opponent's
\* mana) and is followed by the player's turn.
C26_ExhaustedNPCSkips ==
    [][ (/\ last'.op = "npc_turn"
         /\ \A i \in 1..Len(chars[opponent].known_spells) :
                Cost(chars[opponent].known_spells[i]) > chars[opponent].mana) =>
            /\ last'.ret_spell = None
            /\ chars' = chars
            /\ pc' = "player_turn" ]_vars

C26_Witness ==
    /\ last.op = "npc_turn"
    /\ last.ret_spell = None
    /\ pc = "player_turn"
    /\ chars[opponent].mana = 0
    /\ chars["player"].health < chars["player"].max_health

\* C27: a successful cast of a spell whose effect is heal, illumination or
\* none changes nothing but the caster's mana, which drops by the cost.
C27_MessageOnlyEffects ==
    [][ (/\ CastStep
         /\ SpellDef[last'.spell].effect \in {"heal", "illumination", None}
         /\ Successful(last'.spell, last'.who)) =>
            chars' = [chars EXCEPT ![last'.who].mana = @ - Cost(last'.spell)] ]_vars

C27_Witness ==
    /\ last.op = "cast"
    /\ last.spell = "EPISKEY"
    /\ last.ret_effect = "heal"
    /\ chars[last.who].health = chars[last.who].max_health - 15
    /\ chars[last.who].mana = chars[last.who].max_mana - 30

-----------------------------------------------------------------------------
(* Properties of a session *)

\* C28: no session operation (explore, attend_class, cast_spell, the steps
\* of a duel) lowers the player's knowledge; an attend_class that teaches a
\* spell raises knowledge by 10 and house points by 5, and one for a player
\* who knows every catalog spell changes nothing.
C28_Knowledge ==
    [][ /\ chars'["player"].knowledge >= chars["player"].knowledge
        /\ last'.op = "attend_class" =>
               IF \A s \in Spells :
                      \E i \in 1..Len(chars["player"].known_spells) :
                          chars["player"].known_spells[i] = s
               THEN chars' = chars
               ELSE /\ chars'["player"].knowledge = chars["player"].knowledge + 10
                    /\ chars'["player"].house_points = chars["player"].house_points + 5
                    /\ chars'["player"].known_spells =
                           Append(chars["player"].known_spells, last'.spell) ]_vars

C28_Witness ==
    /\ last.op = "attend_class"
    /\ ops > 0
    /\ last.spell = None
    /\ Len(chars["player"].known_spells) = Len(ALL_SPELLS_values)
    /\ chars["player"].knowledge = 50

\* C29: a duel started against an opponent whose health is already 0 runs no
\* turn and changes no combatant, house points included, and is followed by
\* the recovery of heal(30) and restore_mana(30).
C29_DuelWithDefeated ==
    [][ /\ (last'.op = "duel" /\ chars[opponent'].health = 0) =>
               /\ pc' = "post_duel"
               /\ chars' = chars
        /\ (last.op = "duel" /\ pc = "post_duel") =>
               /\ last'.op = "post_duel"
               /\ HousePoints(chars') = HousePoints(chars)
               /\ chars'["player"].health =
                      IF chars["player"].health + 30 <= chars["player"].max_health
                      THEN chars["player"].health + 30
                      ELSE chars["player"].max_health
               /\ chars'["player"].mana =
                      IF chars["player"].mana + 30 <= chars["player"].max_mana
                      THEN chars["player"].mana + 30
                      ELSE chars["player"].max_mana ]_vars

C29_Witness ==
    /\ last.op = "post_duel"
    /\ chars[last.target].health = 0
    /\ chars["player"].house_points = 25
    /\ chars["player"].mana > 60
    /\ chars["player"].mana < chars["player"].max_mana

\* C30: from a new game the player's health is above 0 at the start of every
\* duel and in every state outside a duel.
C30_AliveOutsideDuel ==
    (pc = "menu" \/ last.op = "duel") => chars["player"].health > 0

C30_Witness ==
    /\ last.op = "duel"
    /\ pc = "player_turn"
    /\ chars["player"].health = 30
    /\ chars["player"].house_points < 5

-----------------------------------------------------------------------------
(* Properties of mana and of the shield *)

\* the mana of combatant c after the step is its mana before, less the cost
\* of last'.spell if c is the caster of the turn and could pay it
ManaAfterTurn(c) ==
    IF c = last'.who /\ last'.spell # None /\ chars[c].mana >= Cost(last'.spell)
    THEN chars'[c].mana = chars[c].mana - Cost(last'.spell)
    ELSE chars'[c].mana = chars[c].mana

\* C31: in the turns of a duel no combatant's mana rises, and it changes only
\* by the cost of a cast its caster could pay; the player's mana rises only in
\* the recovery after a duel or by exploring, and an NPC's mana is raised by
\* no session operation.
C31_ManaNeverRisesInDuel ==
    [][ /\ last'.op \in {"player_turn", "npc_turn"} =>
               \A c \in DOMAIN chars :
                   /\ chars'[c].mana <= chars[c].mana
                   /\ ManaAfterTurn(c)
        /\ chars'["player"].mana > chars["player"].mana =>
               last'.op \in {"post_duel", "explore"}
        /\ \A n \in NPCs : chars'[n].mana <= chars[n].mana ]_vars

C31_Witness ==
    /\ last.op = "npc_turn"
    /\ last.spell # None
    /\ turns > 1
    /\ chars[opponent].mana < chars[opponent].max_mana
    /\ chars["player"].mana < chars["player"].max_mana

\* C32: after any sequence of apply_effect, take_damage and clear_effects
\* calls a combatant whose shield_active is true has "Shield" in its
\* status_effects, and no take_damage has failed on removing it.
C32_ShieldListed ==
    /\ \A c \in DOMAIN chars :
           chars[c].shield_active => Contains(chars[c].status_effects, "Shield")
    /\ last.raised = None
    /\ pc # "crashed"

C32_Witness ==
    /\ last.op = "apply_effect"
    /\ last.effect = "shield"
    /\ chars[last.who].shield_active
    /\ chars[last.who].status_effects = <<"Shield">>
    /\ chars[last.who].health = chars[last.who].max_health - 7

====
